---- MODULE Spec2Model ----
(***************************************************************************)
(* AOI - Satellite Imagery: the feature list, the map surface that renders *)
(* it, and the drawing-tool state machine.                                 *)
(*                                                                         *)
(* The repository holds the application twice: the single-file App         *)
(* component (src/unnamed/part_000), and the component version             *)
(* (MapContainer, DrawingTools, AOIList, Sidebar) with its zustand store.  *)
(* impl says which of the two a behaviour is about.  Every action is one   *)
(* event of the UI event loop: the handler, the React render it causes and *)
(* every effect that render runs, up to the next idle state.               *)
(***************************************************************************)
EXTENDS Integers, Sequences, FiniteSets, TLC

VARIABLES
    impl,            \* "App" (part_000) or "MC" (MapContainer.tsx and its props)
    features,        \* the feature list (useState / store.features)
    selectedFeature, \* store.selectedFeature (an option: <<>> or <<f>>)
    activeView,      \* App: 'map' | 'analytics' | 'settings'
    activeTool,      \* NULL or the id of the active drawing tool
    wmsVisible,      \* base layer toggle
    aoiVisible,      \* feature group toggle
    wmsOpacity,      \* 0..100
    mapRef,          \* mapRef.current is a live map
    tileLayerRef,    \* option of the tile layer object [opacity, onMap]
    drawnItemsRef,   \* option of the feature group object [layers, onMap, afterSave]
    handlers,        \* the draw handler objects of the heap
    drawHandlerRef,  \* index into handlers, 0 for null
    closureLen,      \* features.length as captured by the registered draw:created handler
    storage,         \* localStorage['aoi-features'] (an option of the JSON array)
    now,             \* the last reading of Date.now()
    lastEvent,       \* the event the last step processed (history)
    searchQuery,     \* the text of the search box (searchQuery / query)
    debouncedQuery,  \* SearchBar: the value useDebounce has delivered
    searchResults,   \* the results shown (searchResults / results)
    showSearchResults,   \* the dropdown is open (showSearchResults / isOpen)
    timer,           \* option of the query the pending 300 ms timeout will take up
    requests         \* the queries of the fetches in flight, in the order of their start

searchVars == <<searchQuery, debouncedQuery, searchResults, showSearchResults,
                timer, requests>>

vars == <<impl, features, selectedFeature, activeView, activeTool, wmsVisible,
          aoiVisible, wmsOpacity, mapRef, tileLayerRef, drawnItemsRef, handlers,
          drawHandlerRef, closureLen, storage, now, lastEvent, searchQuery,
          debouncedQuery, searchResults, showSearchResults, timer, requests>>

(***************************************************************************)
(* Bounds and vocabulary                                                   *)
(***************************************************************************)
\* The number of Date.now() readings (one per draw completion) of a behaviour.
MaxClock == 2

\* Math.random() outcomes told apart.  Ids of one behaviour already differ in
\* their Date.now() part: a later event reads a later clock.
Rand == {0}

NULL == "null"

\* An optional value: absent (undefined / null / a missing key) or present.
None == <<>>
Some(v) == <<v>>

Tools == {"polygon", "rectangle", "circle", "marker"}

Views == {"map", "analytics", "settings"}

FEATURE_COLORS ==
    [polygon |-> "#3b82f6", rectangle |-> "#10b981",
     circle |-> "#8b5cf6", marker |-> "#ef4444"]

\* Positions of the opacity slider (0..100) told apart.
OpacityValues == {100, 40}

\* Names a user types into the rename field.
UserNames == {"Field A"}

(***************************************************************************)
(* Geometry (mapUtils.ts).  Latitudes are taken from a set on which the    *)
(* sine is rational, so the area sum is computed exactly: Sin2 is twice    *)
(* the sine.                                                               *)
(***************************************************************************)
Sin2(lat) ==
    CASE lat = 90 -> 2
      [] lat = 30 -> 1
      [] lat = 0 -> 0
      [] lat = -30 -> -1
      [] lat = -90 -> -2

Abs(n) == IF n < 0 THEN 0 - n ELSE n

RECURSIVE EdgeSum(_, _)
\* The loop of calculatePolygonArea from edge i on; a point is <<lat, lng>>.
\* The result is in units of (PI/180)/2: 2 * total.
EdgeSum(pts, i) ==
    IF i > Len(pts) THEN 0
    ELSE LET p1 == pts[i]
             p2 == pts[(i % Len(pts)) + 1]
         IN (p2[2] - p1[2]) * (4 + Sin2(p1[1]) + Sin2(p2[1])) + EdgeSum(pts, i + 1)

\* In units of (PI/180) * EARTH_RADIUS^2 / 4.
calculatePolygonArea(latlngs) ==
    IF Len(latlngs) < 3 THEN 0 ELSE Abs(EdgeSum(latlngs, 1))

\* In units of PI.
calculateCircleArea(radius) == radius * radius

\* The layers a draw:created event carries, by tool.  The second polygon has
\* its three vertices on one meridian, the third has two vertices only.
DrawnLayers(type) ==
    CASE type = "polygon" ->
           {[latlngs |-> << <<0, 0>>, <<0, 1>>, <<30, 1>> >>],
            [latlngs |-> << <<0, 0>>, <<30, 0>>, <<90, 0>> >>],
            [latlngs |-> << <<0, 0>>, <<30, 1>> >>]}
      [] type = "rectangle" ->
           {[latlngs |-> << <<0, 0>>, <<30, 0>>, <<30, 1>>, <<0, 1>> >>]}
      [] type = "circle" ->
           {[center |-> <<0, 0>>, radius |-> 100]}
      [] type = "marker" ->
           {[pos |-> <<30, 1>>]}

\* Date.now().toString(36) + Math.random().toString(36).substr(2): the clock part
\* has one length for every reading of this era, so the string tells the pair.
generateId(t, r) == <<t, r>>

\* `AOI ${n}`
DefaultName(n) == "AOI " \o ToString(n)

\* t and r are the readings of Date.now() and Math.random() the call makes.
createFeatureFromLayer(layer, type, name, existingFeatureCount, t, r) ==
    LET coordinates ==
            CASE type \in {"polygon", "rectangle"} -> [ring |-> layer.latlngs]
              [] type = "circle" -> [center |-> layer.center, radius |-> layer.radius]
              [] OTHER -> [point |-> layer.pos]
        area ==
            CASE type \in {"polygon", "rectangle"} -> calculatePolygonArea(layer.latlngs)
              [] type = "circle" -> calculateCircleArea(layer.radius)
              [] OTHER -> 0
    IN [id |-> generateId(t, r),
        name |-> IF name = "" THEN DefaultName(existingFeatureCount + 1) ELSE name,
        type |-> type,
        coordinates |-> coordinates,
        area |-> IF area > 0 THEN Some(area) ELSE None,
        color |-> FEATURE_COLORS[type],
        createdAt |-> t]

(***************************************************************************)
(* The feature list operations (mapStore.ts; App applies the same updates  *)
(* through setFeatures).                                                   *)
(***************************************************************************)
addFeature(fs, feature) == Append(fs, feature)

\* The filter with its test inverted.
removeFeatureKeepsMatch(fs, id) ==
    LET keep(f) == f.id = id IN SelectSeq(fs, keep)

removeFeature(fs, id) ==
    LET keep(f) == f.id # id IN SelectSeq(fs, keep)

\* { ...f, ...updates }
Merge(f, updates) ==
    [k \in DOMAIN f |-> IF k \in DOMAIN updates THEN updates[k] ELSE f[k]]

\* The map without its test of the id.
updateFeatureAll(fs, id, updates) ==
    [i \in DOMAIN fs |-> Merge(fs[i], updates)]

updateFeature(fs, id, updates) ==
    [i \in DOMAIN fs |-> IF fs[i].id = id THEN Merge(fs[i], updates) ELSE fs[i]]

clearFeatures == <<>>

FeatureIds(fs) == {fs[i].id : i \in DOMAIN fs}

(***************************************************************************)
(* The map surface: Leaflet objects as the code uses them.                 *)
(***************************************************************************)
\* The layer the restore effect builds for a feature.  Only MapContainer sets
\* the featureId property on the layer; L.marker takes no colour.  builtFrom is
\* history: the id of the feature the layer was made from.
LayerFor(im, feature) ==
    [type |-> feature.type,
     geometry |-> feature.coordinates,
     color |-> IF feature.type = "marker" THEN None ELSE Some(feature.color),
     featureId |-> IF im = "MC" THEN Some(feature.id) ELSE None,
     builtFrom |-> feature.id]

\* The layer a draw handler hands to draw:created (shapeOptions colour), as the
\* handler leaves it: MapContainer sets featureId on it.
DrawnLayerFor(im, feature) ==
    [type |-> feature.type,
     geometry |-> feature.coordinates,
     color |-> IF feature.type = "marker" THEN None ELSE Some("#3b82f6"),
     featureId |-> IF im = "MC" THEN Some(feature.id) ELSE None,
     builtFrom |-> feature.id]

\* clearLayers that leaves the layers in place.
clearLayersKeeps(group) == group

\* L.FeatureGroup.clearLayers / addLayer
clearLayers(group) == [group EXCEPT !.layers = <<>>]

addLayer(group, layer) == [group EXCEPT !.layers = Append(@, layer)]

\* The state the effects work on, as one record.
State ==
    [impl |-> impl, features |-> features, activeView |-> activeView,
     activeTool |-> activeTool, wmsVisible |-> wmsVisible, aoiVisible |-> aoiVisible,
     wmsOpacity |-> wmsOpacity, mapRef |-> mapRef, tileLayerRef |-> tileLayerRef,
     drawnItemsRef |-> drawnItemsRef, handlers |-> handlers,
     drawHandlerRef |-> drawHandlerRef, closureLen |-> closureLen,
     storage |-> storage, now |-> now]

\* JSON.stringify of a feature: a key whose value is undefined is left out.
ToJSON(f) ==
    IF f.area = None THEN [k \in (DOMAIN f) \ {"area"} |-> f[k]] ELSE f

\* JSON.stringify(features): the text of a JSON array.  A stored text is told by
\* what JSON.parse makes of it: json is "array" (with its items), "object" (it
\* parses, to a value that is no array), "invalid" (it does not parse) or
\* "empty" (the empty string).
Stringify(fs) == [json |-> "array", items |-> [i \in DOMAIN fs |-> ToJSON(fs[i])]]

\* A missing area read as 0 (area: j.area ?? 0).
FromJSONAreaZero(j) ==
    IF "area" \in DOMAIN j THEN j
    ELSE [k \in (DOMAIN j) \cup {"area"} |-> IF k = "area" THEN Some(0) ELSE j[k]]

\* A feature read back from its JSON: a key that is missing reads as undefined.
FromJSON(j) ==
    IF "area" \in DOMAIN j THEN j
    ELSE [k \in (DOMAIN j) \cup {"area"} |-> IF k = "area" THEN None ELSE j[k]]

\* JSON.parse of the text of an array.
Parse(text) == [i \in DOMAIN text.items |-> FromJSON(text.items[i])]

\* The useState initializer of features and the first use of its result:
\* saved ? JSON.parse(saved) : [].  threw: JSON.parse raised a SyntaxError, or
\* the value is no array and the render that uses it (features.reduce) raised a
\* TypeError.
LoadFeatures(saved) ==
    IF saved = None \/ saved[1].json = "empty"
    THEN [threw |-> FALSE, features |-> <<>>]
    ELSE IF saved[1].json = "array"
         THEN [threw |-> FALSE, features |-> Parse(saved[1])]
         ELSE [threw |-> TRUE, features |-> <<>>]

\* The effect with an empty dependency list: it writes on the first render only.
SaveEffectOnce(s) ==
    IF s.storage = None \/ s.features = <<>>
    THEN [s EXCEPT !.storage = Some(Stringify(s.features))]
    ELSE s

\* useEffect(() => localStorage.setItem('aoi-features', ...), [features])
SaveEffect(s) == [s EXCEPT !.storage = Some(Stringify(s.features))]

\* The cleanup of the initialize-map effect: map.remove() takes every layer off
\* the map and leaves the handlers that were built on it bound to a dead map.
InitMapCleanup(s) ==
    [s EXCEPT !.mapRef = FALSE,
              !.tileLayerRef = [i \in DOMAIN @ |-> [@[i] EXCEPT !.onMap = FALSE]],
              !.drawnItemsRef = [i \in DOMAIN @ |-> [@[i] EXCEPT !.onMap = FALSE]],
              !.handlers = [i \in DOMAIN @ |-> [@[i] EXCEPT !.mapLive = FALSE]]]

\* The initialize-map effect.  The container div is rendered in the map view only.
InitMapEffect(s) ==
    IF s.activeView # "map" \/ s.mapRef THEN s
    ELSE [s EXCEPT !.mapRef = TRUE,
                   !.tileLayerRef = Some([opacity |-> 100, onMap |-> TRUE]),
                   !.drawnItemsRef = Some([layers |-> <<>>, onMap |-> TRUE,
                                           afterSave |-> TRUE]),
                   !.closureLen = Len(s.features)]

RECURSIVE AddAll(_, _, _, _)
\* features.forEach(feature => ... addLayer(layer)) from feature i on.
AddAll(im, group, fs, i) ==
    IF i > Len(fs) THEN group
    ELSE AddAll(im, addLayer(group, LayerFor(im, fs[i])), fs, i + 1)

\* The group as a rebuild in state s leaves it.  afterSave is history: it says
\* whether storage held the list the rebuild rendered at the time it ran (a new
\* group, which no rebuild has filled yet, starts with TRUE).
Rebuilt(s, group) ==
    [group EXCEPT !.afterSave = (s.storage = Some(Stringify(s.features)))]

\* The restore effect returning early on an empty list.
RestoreEffectSkipsEmpty(s) ==
    IF s.drawnItemsRef = None \/ ~s.mapRef \/ s.features = <<>> THEN s
    ELSE [s EXCEPT !.drawnItemsRef =
              Some(Rebuilt(s, AddAll(s.impl, clearLayers(s.drawnItemsRef[1]), s.features, 1)))]

\* The restore effect without its clearLayers() call.
RestoreEffectAppends(s) ==
    IF s.drawnItemsRef = None \/ ~s.mapRef THEN s
    ELSE [s EXCEPT !.drawnItemsRef =
              Some(Rebuilt(s, AddAll(s.impl, s.drawnItemsRef[1], s.features, 1)))]

\* The restore-features effect.
RestoreEffect(s) ==
    IF s.drawnItemsRef = None \/ ~s.mapRef THEN s
    ELSE [s EXCEPT !.drawnItemsRef =
              Some(Rebuilt(s, AddAll(s.impl, clearLayers(s.drawnItemsRef[1]), s.features, 1)))]

\* The base layer visibility effect.
WmsVisibleEffect(s) ==
    IF s.tileLayerRef = None \/ ~s.mapRef THEN s
    ELSE [s EXCEPT !.tileLayerRef[1].onMap = s.wmsVisible]

\* The feature group visibility effect.
AoiVisibleEffect(s) ==
    IF s.drawnItemsRef = None \/ ~s.mapRef THEN s
    ELSE [s EXCEPT !.drawnItemsRef[1].onMap = s.aoiVisible]

\* The opacity effect setting the layer fully opaque whatever the value.
OpacityEffectOpaque(s) ==
    IF s.tileLayerRef = None THEN s
    ELSE [s EXCEPT !.tileLayerRef[1].opacity = 100]

\* The opacity effect: setOpacity(wmsOpacity / 100), kept in percent.
OpacityEffect(s) ==
    IF s.tileLayerRef = None THEN s
    ELSE [s EXCEPT !.tileLayerRef[1].opacity = s.wmsOpacity]

\* map.on('draw:drawstop', () => setActiveTool(null)) / onToolComplete()
DrawStopListener(s) == [s EXCEPT !.activeTool = NULL]

\* handler.disable() (leaflet-draw, L.Draw.Feature): nothing when the handler is
\* not enabled; otherwise it is disabled and its map fires draw:drawstop.
HandlerDisable(s, i) ==
    IF ~s.handlers[i].enabled THEN s
    ELSE DrawStopListener([s EXCEPT !.handlers[i].enabled = FALSE])

\* The reference is dropped without disable() being called.
DisablePreviousForgets(s) == [s EXCEPT !.drawHandlerRef = 0]

\* if (drawHandlerRef.current) { drawHandlerRef.current.disable(); ... = null }
DisablePrevious(s) ==
    IF s.drawHandlerRef # 0
    THEN [HandlerDisable(s, s.drawHandlerRef) EXCEPT !.drawHandlerRef = 0]
    ELSE s

\* switch (activeTool) { ... new L.Draw.X(map) }; handler.enable(); ref = handler
EnableHandler(s, tool) ==
    IF tool \notin Tools THEN s
    ELSE [s EXCEPT !.handlers = Append(@, [type |-> tool, enabled |-> TRUE, mapLive |-> TRUE]),
                   !.drawHandlerRef = Len(s.handlers) + 1]

\* The effect with "if (!activeTool) return" ahead of the disable.
ToolEffectReturnsEarly(s) ==
    IF ~s.mapRef \/ s.activeTool = NULL THEN s
    ELSE EnableHandler(DisablePrevious(s), s.activeTool)

\* The drawing-tool effect.  tool is the activeTool of the render the effect
\* belongs to; a draw:drawstop fired inside it only schedules the next render.
ToolEffect(s) ==
    IF ~s.mapRef THEN s
    ELSE LET tool == s.activeTool
             d == DisablePrevious(s)
         IN IF tool = NULL THEN d ELSE EnableHandler(d, tool)

\* One commit with the save effect run after all the others.
PassSavesLast(prev, s, newList) ==
    LET remap == s.impl = "App"
                 /\ (s.activeView # prev.activeView
                     \/ Len(s.features) # Len(prev.features))
        c  == IF remap /\ prev.mapRef THEN InitMapCleanup(s) ELSE s
        e2 == IF remap THEN InitMapEffect(c) ELSE c
        e3 == IF newList THEN RestoreEffect(e2) ELSE e2
        e4 == IF s.wmsVisible # prev.wmsVisible THEN WmsVisibleEffect(e3) ELSE e3
        e5 == IF s.aoiVisible # prev.aoiVisible THEN AoiVisibleEffect(e4) ELSE e4
        e6 == IF s.wmsOpacity # prev.wmsOpacity THEN OpacityEffect(e5) ELSE e5
        e7 == IF s.activeTool # prev.activeTool THEN ToolEffect(e6) ELSE e6
    IN IF newList THEN SaveEffect(e7) ELSE e7

\* One commit: the cleanups of the effects whose dependencies changed, then
\* those effects in the order of their declaration.  prev is the state of the
\* previous render; newList says that setFeatures produced a new array.
Pass(prev, s, newList) ==
    LET remap == s.impl = "App"
                 /\ (s.activeView # prev.activeView
                     \/ Len(s.features) # Len(prev.features))
        c  == IF remap /\ prev.mapRef THEN InitMapCleanup(s) ELSE s
        e1 == IF newList THEN SaveEffect(c) ELSE c
        e2 == IF remap THEN InitMapEffect(e1) ELSE e1
        e3 == IF newList THEN RestoreEffect(e2) ELSE e2
        e4 == IF s.wmsVisible # prev.wmsVisible THEN WmsVisibleEffect(e3) ELSE e3
        e5 == IF s.aoiVisible # prev.aoiVisible THEN AoiVisibleEffect(e4) ELSE e4
        e6 == IF s.wmsOpacity # prev.wmsOpacity THEN OpacityEffect(e5) ELSE e5
    IN IF s.activeTool # prev.activeTool THEN ToolEffect(e6) ELSE e6

RECURSIVE Render(_, _, _)
\* Renders until no effect has scheduled another one.
Render(prev, s, newList) ==
    LET r == Pass(prev, s, newList)
    IN IF r.activeTool = s.activeTool THEN r
       ELSE Render([r EXCEPT !.activeTool = s.activeTool], r, FALSE)

\* The first render: every effect runs once, in order.
Mount(s) ==
    LET m == ToolEffect(OpacityEffect(AoiVisibleEffect(WmsVisibleEffect(
                 RestoreEffect(InitMapEffect(SaveEffect(s)))))))
    IN IF m.activeTool = s.activeTool THEN m
       ELSE Render([m EXCEPT !.activeTool = s.activeTool], m, FALSE)

\* Handler objects nothing refers to any more (disabled, and not the one in
\* drawHandlerRef) are dropped from the heap.
Collect(s) ==
    LET keep == {i \in DOMAIN s.handlers : s.handlers[i].enabled \/ i = s.drawHandlerRef}
        rank(i) == Cardinality({k \in keep : k <= i})
        at(j) == CHOOSE i \in keep : rank(i) = j
    IN [s EXCEPT !.handlers = [j \in 1..Cardinality(keep) |-> s.handlers[at(j)]],
                 !.drawHandlerRef = IF @ = 0 THEN 0 ELSE rank(@)]

\* The new state is s, reached by event ev.
Commit(s, ev) ==
    /\ impl' = s.impl
    /\ features' = s.features
    /\ activeView' = s.activeView
    /\ activeTool' = s.activeTool
    /\ wmsVisible' = s.wmsVisible
    /\ aoiVisible' = s.aoiVisible
    /\ wmsOpacity' = s.wmsOpacity
    /\ mapRef' = s.mapRef
    /\ tileLayerRef' = s.tileLayerRef
    /\ drawnItemsRef' = s.drawnItemsRef
    /\ handlers' = s.handlers
    /\ drawHandlerRef' = s.drawHandlerRef
    /\ closureLen' = s.closureLen
    /\ storage' = s.storage
    /\ now' = s.now
    /\ lastEvent' = ev
    /\ UNCHANGED selectedFeature
    /\ UNCHANGED searchVars

\* known: the id the event names is in the list; threw: the step raised an
\* error nothing caught (of all steps only a page load can).
Event(op) == [op |-> op, known |-> TRUE, threw |-> FALSE]

StoreEvent(op, known) == [op |-> op, known |-> known, threw |-> FALSE]

\* The React tree is mounted: the last page load did not end in an uncaught error.
Mounted == ~(lastEvent.op = "load" /\ lastEvent.threw)

\* The handlers a user can complete a shape with: enabled, on the live map.
Drawable(s) ==
    {i \in DOMAIN s.handlers : s.handlers[i].enabled /\ s.handlers[i].mapLive /\ s.mapRef}

(***************************************************************************)
(* Events                                                                  *)
(***************************************************************************)
\* The state before the first render.
Blank(im) ==
    [impl |-> im, features |-> <<>>, activeView |-> "map", activeTool |-> NULL,
     wmsVisible |-> TRUE, aoiVisible |-> TRUE, wmsOpacity |-> 100, mapRef |-> FALSE,
     tileLayerRef |-> None, drawnItemsRef |-> None, handlers |-> <<>>,
     drawHandlerRef |-> 0, closureLen |-> 0, storage |-> None, now |-> 0]

\* The variables hold s.
Start(s) ==
    /\ impl = s.impl
    /\ features = s.features
    /\ activeView = s.activeView
    /\ activeTool = s.activeTool
    /\ wmsVisible = s.wmsVisible
    /\ aoiVisible = s.aoiVisible
    /\ wmsOpacity = s.wmsOpacity
    /\ mapRef = s.mapRef
    /\ tileLayerRef = s.tileLayerRef
    /\ drawnItemsRef = s.drawnItemsRef
    /\ handlers = s.handlers
    /\ drawHandlerRef = s.drawHandlerRef
    /\ closureLen = s.closureLen
    /\ storage = s.storage
    /\ now = s.now
    /\ lastEvent = Event("init")
    /\ selectedFeature = None
    /\ searchQuery = ""
    /\ debouncedQuery = ""
    /\ searchResults = <<>>
    /\ showSearchResults = FALSE
    /\ timer = None
    /\ requests = <<>>

\* The application after its first render, with nothing persisted.
Init == \E im \in {"App", "MC"} : Start(Mount(Blank(im)))

\* A click on a drawing tool button: the tool, or off when it is the active one.
ToolClick(tool) ==
    /\ Mounted
    /\ activeView = "map"
    /\ LET s == [State EXCEPT !.activeTool = IF activeTool = tool THEN NULL ELSE tool]
       IN Commit(Collect(Render(State, s, FALSE)), Event("toolClick"))

\* The Cancel button, rendered while a tool is active.
CancelClick ==
    /\ Mounted
    /\ activeView = "map"
    /\ activeTool # NULL
    /\ LET s == [State EXCEPT !.activeTool = NULL]
       IN Commit(Collect(Render(State, s, FALSE)), Event("cancel"))

\* The listener without its setFeatures / onFeatureAdd call.
CreatedListenerDropsFeature(s, layer, type, t, r) ==
    [s EXCEPT !.activeTool = NULL, !.now = t]

\* A polygon or rectangle of fewer than three vertices is turned away.
CreatedListenerRejectsShort(s, layer, type, t, r) ==
    IF type \in {"polygon", "rectangle"} /\ Len(layer.latlngs) < 3
    THEN [s EXCEPT !.activeTool = NULL, !.now = t]
    ELSE LET feature == createFeatureFromLayer(layer, type, DefaultName(s.closureLen + 1),
                                               s.closureLen, t, r)
         IN [s EXCEPT !.drawnItemsRef[1] = addLayer(@, DrawnLayerFor(s.impl, feature)),
                      !.features = addFeature(@, feature),
                      !.activeTool = NULL,
                      !.now = t]

\* map.on('draw:created', ...) in App, map.on(L.Draw.Event.CREATED, ...) in
\* MapContainer (whose onFeatureAdd and onToolComplete append the feature and
\* clear the tool).
CreatedListener(s, layer, type, t, r) ==
    LET feature == createFeatureFromLayer(layer, type, DefaultName(s.closureLen + 1),
                                          s.closureLen, t, r)
    IN [s EXCEPT !.drawnItemsRef[1] = addLayer(@, DrawnLayerFor(s.impl, feature)),
                 !.features = addFeature(@, feature),
                 !.activeTool = NULL,
                 !.now = t]

\* The user completes a shape with handler i: leaflet-draw fires draw:created
\* and then disables the handler, which fires draw:drawstop.
DrawCreated(i, layer, r) ==
    /\ Mounted
    /\ i \in Drawable(State)
    /\ layer \in DrawnLayers(handlers[i].type)
    /\ now < MaxClock
    /\ LET type == handlers[i].type
           s == HandlerDisable(CreatedListener(State, layer, type, now + 1, r), i)
       IN Commit(Collect(Render(State, s, TRUE)), Event("created"))

\* The user abandons the shape (Escape): leaflet-draw disables the handler.
DrawCancelled(i) ==
    /\ Mounted
    /\ i \in Drawable(State)
    /\ LET s == HandlerDisable(State, i)
       IN Commit(Collect(Render(State, s, FALSE)), Event("drawstop"))

\* The delete button of a listed feature: App.removeFeature / onFeatureRemove.
RemoveClick(id) ==
    /\ Mounted
    /\ activeView = "map"
    /\ id \in FeatureIds(features)
    /\ LET s == [State EXCEPT !.features = removeFeature(@, id)]
       IN Commit(Collect(Render(State, s, TRUE)), Event("remove"))

\* Clear All, confirmed: App.clearAllFeatures / onClearAll.
ClearAllClick ==
    /\ Mounted
    /\ activeView = "map"
    /\ LET s == [State EXCEPT !.features = clearFeatures]
       IN Commit(Collect(Render(State, s, TRUE)), Event("clear"))

\* AOIItem.handleSaveName (Enter or blur): onUpdate({ name }).  The name field
\* starts as the feature's name, so saving may keep it.
RenameSave(id, name) ==
    /\ Mounted
    /\ impl = "MC"
    /\ id \in FeatureIds(features)
    /\ LET s == [State EXCEPT !.features = updateFeature(@, id, [name |-> name])]
       IN Commit(Collect(Render(State, s, TRUE)), Event("rename"))

\* The navigation buttons of App's header.
SetActiveView(view) ==
    /\ Mounted
    /\ impl = "App"
    /\ view # activeView
    /\ LET s == [State EXCEPT !.activeView = view]
       IN Commit(Collect(Render(State, s, FALSE)), Event("view"))

\* i <= 32 of the circle loop of exportGeoJSON.
CircleSegments == 32

\* [c[1], c[0]]: a stored [lat, lng] as a GeoJSON [lng, lat].
Swap(c) == <<c[2], c[1]>>

\* The ring left open: the closing position is not appended.
ExportRingOpen(coords) == [i \in 1..Len(coords) |-> Swap(coords[i])]

\* [...coords.map(c => [c[1], c[0]]), [coords[0][1], coords[0][0]]]
ExportRing(coords) ==
    [i \in 1..(Len(coords) + 1) |->
        IF i <= Len(coords) THEN Swap(coords[i]) ELSE Swap(coords[1])]

\* Math.sin((i / 32) * 2 * Math.PI) as a double: 0 at i = 0; at i = 32 the
\* angle is the double 2 * Math.PI, a little short of a full turn, and its sine
\* is -2.4492935982947064e-16; the other steps are kept by name.
SinStep(i) ==
    IF i = 0 THEN "0"
    ELSE IF i = CircleSegments THEN "-2.45e-16"
    ELSE "sin " \o ToString(i)

\* Math.cos((i / 32) * 2 * Math.PI) as a double: 1 at i = 0, and at i = 32,
\* where 1 - 3e-32 rounds to 1.
CosStep(i) ==
    IF i \in {0, CircleSegments} THEN "1" ELSE "cos " \o ToString(i)

\* base + (radius / metres per degree) * trig in doubles, base in whole degrees.
\* A product of 0 leaves base.  The product with -2.45e-16 is less than half
\* the spacing of the doubles at a base of one degree or more (1.1e-16) for
\* every radius up to 50 km at the equator, and is lost in the sum; added to a
\* base of 0 it is the sum.
Offset(base, radius, trig) ==
    IF trig = "0" \/ (trig = "-2.45e-16" /\ base # 0 /\ radius <= 50000)
    THEN [base |-> base, radius |-> 0, trig |-> "0"]
    ELSE [base |-> base, radius |-> radius, trig |-> trig]

\* The ring of a circle: for (let i = 0; i <= 32; i++) pts.push([lng, lat]).
CircleRing(c) ==
    [i \in 1..(CircleSegments + 1) |->
        << Offset(c.center[2], c.radius, SinStep(i - 1)),
           Offset(c.center[1], c.radius, CosStep(i - 1)) >>]

\* Properties with area: f.area || 0.
ExportPropertiesAreaZero(f) ==
    [id |-> f.id, name |-> f.name, type |-> f.type,
     area |-> IF f.area = None THEN Some(0) ELSE f.area, createdAt |-> f.createdAt]

\* properties: { id, name, type, area, createdAt } as JSON.stringify writes it:
\* an undefined area is left out.
ExportProperties(f) ==
    IF f.area = None
    THEN [id |-> f.id, name |-> f.name, type |-> f.type, createdAt |-> f.createdAt]
    ELSE [id |-> f.id, name |-> f.name, type |-> f.type, area |-> f.area,
          createdAt |-> f.createdAt]

ExportGeometry(f) ==
    IF f.type = "marker"
    THEN [type |-> "Point", coordinates |-> Swap(f.coordinates.point)]
    ELSE [type |-> "Polygon",
          coordinates |-> << IF f.type = "circle" THEN CircleRing(f.coordinates)
                             ELSE ExportRing(f.coordinates.ring) >>]

ExportFeature(f) ==
    [type |-> "Feature", properties |-> ExportProperties(f), geometry |-> ExportGeometry(f)]

\* exportGeoJSON without its test of the empty list.
exportGeoJSONUnguarded(fs) ==
    [toast |-> "GeoJSON exported",
     download |-> Some([type |-> "FeatureCollection",
                        features |-> [i \in DOMAIN fs |-> ExportFeature(fs[i])]])]

\* App.exportGeoJSON: the toast it shows and the document it downloads.
exportGeoJSON(fs) ==
    IF Len(fs) = 0
    THEN [toast |-> "No features to export", download |-> None]
    ELSE [toast |-> "GeoJSON exported",
          download |-> Some([type |-> "FeatureCollection",
                             features |-> [i \in DOMAIN fs |-> ExportFeature(fs[i])]])]

\* The Export GeoJSON button: the handler sets no state but the toast.
ExportClick ==
    /\ Mounted
    /\ activeView = "map"
    /\ Commit(State, [op |-> "export", known |-> TRUE, threw |-> FALSE,
                      result |-> exportGeoJSON(features)])

\* The toggles and the opacity slider of the layers panel.
ToggleWms ==
    /\ Mounted
    /\ activeView = "map"
    /\ LET s == [State EXCEPT !.wmsVisible = ~wmsVisible]
       IN Commit(Collect(Render(State, s, FALSE)), Event("viewState"))

ToggleAoi ==
    /\ Mounted
    /\ activeView = "map"
    /\ LET s == [State EXCEPT !.aoiVisible = ~aoiVisible]
       IN Commit(Collect(Render(State, s, FALSE)), Event("viewState"))

SetWmsOpacity(value) ==
    /\ Mounted
    /\ activeView = "map"
    /\ value # wmsOpacity
    /\ LET s == [State EXCEPT !.wmsOpacity = value]
       IN Commit(Collect(Render(State, s, FALSE)), Event("viewState"))

\* Values localStorage['aoi-features'] can hold that App did not write: the
\* key removed (Clear Data, localStorage.clear()), the empty string, a text
\* that is no JSON, a JSON text that is no array.
ForeignValues ==
    {None, Some([json |-> "empty"]), Some([json |-> "invalid"]), Some([json |-> "object"])}

\* The page is loaded (window.location.reload(), or a new visit) while the key
\* holds saved: every hook starts from its initial value, features from
\* LoadFeatures.  An uncaught error of the first render unmounts the tree.
PageLoad(saved) ==
    /\ impl = "App"
    /\ LET load == LoadFeatures(saved)
           blank == [Blank(impl) EXCEPT !.storage = saved, !.now = now]
       IN IF load.threw
          THEN Commit(blank, [op |-> "load", known |-> TRUE, threw |-> TRUE])
          ELSE Commit(Mount([blank EXCEPT !.features = load.features]), Event("load"))

Next ==
    \/ \E tool \in Tools : ToolClick(tool)
    \/ CancelClick
    \/ \E i \in DOMAIN handlers : \E r \in Rand :
          \E layer \in DrawnLayers(handlers[i].type) : DrawCreated(i, layer, r)
    \/ \E i \in DOMAIN handlers : DrawCancelled(i)
    \/ \E id \in FeatureIds(features) : RemoveClick(id)
    \/ ClearAllClick
    \/ \E id \in FeatureIds(features) :
          \E name \in UserNames \cup {features[i].name : i \in DOMAIN features} :
             RenameSave(id, name)
    \/ \E view \in Views : SetActiveView(view)
    \/ \E saved \in {storage} \cup ForeignValues : PageLoad(saved)
    \/ ExportClick

Spec == Init /\ [][Next]_vars

(***************************************************************************)
(* The layers panel.  Its controls touch the tile layer and the feature    *)
(* group only, so they are explored together with page loads, view         *)
(* switches and the feature list, with the tools of ViewTools.             *)
(***************************************************************************)
\* The tools clicked in behaviours of the layers panel.
ViewTools == {"polygon"}

NextView ==
    \/ ToggleWms
    \/ ToggleAoi
    \/ \E value \in OpacityValues : SetWmsOpacity(value)
    \/ \E tool \in ViewTools : ToolClick(tool)
    \/ \E i \in DOMAIN handlers : \E r \in Rand :
          \E layer \in DrawnLayers(handlers[i].type) : DrawCreated(i, layer, r)
    \/ \E id \in FeatureIds(features) : RemoveClick(id)
    \/ ClearAllClick
    \/ \E view \in Views : SetActiveView(view)
    \/ \E saved \in {storage} \cup ForeignValues : PageLoad(saved)

SpecView == Init /\ [][NextView]_vars

(***************************************************************************)
(* The zustand store (mapStore.ts) under any sequence of calls.            *)
(***************************************************************************)
\* The longest list the store is driven to.
MaxStoreLen == 2

\* Features handed to addFeature: two share an id.
StoreInputs ==
    {createFeatureFromLayer([pos |-> <<30, 1>>], "marker", "", 0, 1, 0),
     createFeatureFromLayer([center |-> <<0, 0>>, radius |-> 100], "circle", "", 1, 1, 0),
     createFeatureFromLayer([latlngs |-> << <<0, 0>>, <<0, 1>>, <<30, 1>> >>],
                            "polygon", "", 1, 2, 0)}

\* Ids handed to removeFeature and updateFeature: the last is never added.
StoreIds == {<<1, 0>>, <<2, 0>>, <<9, 0>>}

StoreInit == Start(Blank("Store"))

StoreUnchanged ==
    UNCHANGED <<impl, activeView, activeTool, wmsVisible, aoiVisible, wmsOpacity,
                mapRef, tileLayerRef, drawnItemsRef, handlers, drawHandlerRef,
                closureLen, storage, now, searchQuery, debouncedQuery,
                searchResults, showSearchResults, timer, requests>>

StoreAddFeature(feature) ==
    /\ Len(features) < MaxStoreLen
    /\ features' = addFeature(features, feature)
    /\ lastEvent' = StoreEvent("addFeature", feature.id \in FeatureIds(features))
    /\ UNCHANGED selectedFeature
    /\ StoreUnchanged

StoreRemoveFeature(id) ==
    /\ features' = removeFeature(features, id)
    /\ lastEvent' = StoreEvent("removeFeature", id \in FeatureIds(features))
    /\ UNCHANGED selectedFeature
    /\ StoreUnchanged

StoreUpdateFeature(id, updates) ==
    /\ features' = updateFeature(features, id, updates)
    /\ lastEvent' = StoreEvent("updateFeature", id \in FeatureIds(features))
    /\ UNCHANGED selectedFeature
    /\ StoreUnchanged

StoreSetSelectedFeature(selection) ==
    /\ selectedFeature' = selection
    /\ lastEvent' = StoreEvent("setSelectedFeature", TRUE)
    /\ UNCHANGED features
    /\ StoreUnchanged

StoreClearFeatures ==
    /\ features' = clearFeatures
    /\ lastEvent' = StoreEvent("clearFeatures", TRUE)
    /\ UNCHANGED selectedFeature
    /\ StoreUnchanged

StoreNext ==
    \/ \E feature \in StoreInputs : StoreAddFeature(feature)
    \/ \E id \in StoreIds : StoreRemoveFeature(id)
    \/ \E id \in StoreIds : \E name \in UserNames :
          StoreUpdateFeature(id, [name |-> name])
    \/ \E selection \in {None} \cup {Some(features[i]) : i \in DOMAIN features} :
          StoreSetSelectedFeature(selection)
    \/ StoreClearFeatures

SpecStore == StoreInit /\ [][StoreNext]_vars

(***************************************************************************)
(* The location search: the search effect of App, and SearchBar with its   *)
(* useDebounce(query, 300).                                                *)
(***************************************************************************)
\* The number of fetches in flight is kept at MaxRequests at most.
MaxRequests == 2

\* What the user types into the box.
Queries == {"", "ab", "abc", "abcd"}

\* What a fetch can come back with.
Outcomes == {"found", "none", "error"}

\* The places the geocoding service finds for a query.
Places(query) == << [display_name |-> query] >>

SearchUnchanged ==
    UNCHANGED <<impl, features, selectedFeature, activeView, activeTool, wmsVisible,
                aoiVisible, wmsOpacity, mapRef, tileLayerRef, drawnItemsRef,
                handlers, drawHandlerRef, closureLen, storage, now>>

\* onChange of the search input.  App: the cleanup of the search effect clears
\* the pending timeout, and the effect either empties the results (a query of
\* fewer than 3 characters) or sets a new timeout.  SearchBar: useDebounce
\* restarts its timeout.
SetSearchQuery(query) ==
    /\ Mounted
    /\ query # searchQuery
    /\ searchQuery' = query
    /\ IF impl = "App"
       THEN IF Len(query) < 3
            THEN /\ searchResults' = <<>>
                 /\ showSearchResults' = FALSE
                 /\ timer' = None
            ELSE /\ timer' = Some(query)
                 /\ UNCHANGED <<searchResults, showSearchResults>>
       ELSE /\ timer' = Some(query)
            /\ UNCHANGED <<searchResults, showSearchResults>>
    /\ UNCHANGED <<debouncedQuery, requests>>
    /\ lastEvent' = Event("setSearchQuery")
    /\ SearchUnchanged

\* The timeout runs.  App: the callback starts the fetch.  SearchBar: the
\* debounced value changes and the fetch effect runs on it.
TimerFires ==
    /\ Mounted
    /\ timer # None
    /\ Len(requests) < MaxRequests
    /\ timer' = None
    /\ IF impl = "App"
       THEN /\ requests' = Append(requests, timer[1])
            /\ UNCHANGED <<debouncedQuery, searchResults, showSearchResults>>
       ELSE /\ debouncedQuery' = timer[1]
            /\ IF timer[1] = debouncedQuery
               THEN UNCHANGED <<requests, searchResults, showSearchResults>>
               ELSE IF Len(timer[1]) < 3
               THEN /\ searchResults' = <<>>
                    /\ showSearchResults' = FALSE
                    /\ UNCHANGED requests
               ELSE /\ requests' = Append(requests, timer[1])
                    /\ UNCHANGED <<searchResults, showSearchResults>>
    /\ UNCHANGED searchQuery
    /\ lastEvent' = Event("timeout")
    /\ SearchUnchanged

\* The fetch i comes back and its continuation runs: setSearchResults(data) and
\* setShowSearchResults(data.length > 0), or setSearchResults([]) in the catch.
FetchReturns(i, outcome) ==
    /\ Mounted
    /\ i \in DOMAIN requests
    /\ requests' = [j \in 1..(Len(requests) - 1) |->
                        IF j < i THEN requests[j] ELSE requests[j + 1]]
    /\ searchResults' = IF outcome = "found" THEN Places(requests[i]) ELSE <<>>
    /\ showSearchResults' = IF outcome = "error" THEN showSearchResults
                            ELSE outcome = "found"
    /\ UNCHANGED <<searchQuery, debouncedQuery, timer>>
    /\ lastEvent' = Event("fetchReturns")
    /\ SearchUnchanged

SearchNext ==
    \/ \E query \in Queries : SetSearchQuery(query)
    \/ TimerFires
    \/ \E i \in 1..MaxRequests, outcome \in Outcomes : FetchReturns(i, outcome)

SpecSearch == Init /\ [][SearchNext]_vars

(***************************************************************************)
(* formatArea (mapUtils.ts, App) and formatAreaValue (MapContainer) on     *)
(* whole numbers of square metres.  The text is kept as its two parts, the *)
(* number and the unit that follows the blank: "m2" is m², "km2" is km².   *)
(***************************************************************************)
\* The inputs go up to MaxAreaSample * AreaStep + 7.
MaxAreaSample == 100

\* The distance of two sampled inputs.
AreaStep == 12345

\* The boundary values and a sample of the range; no input is half way between
\* two hundredths of its unit.
AreaInputs ==
    {0, 1, 9999, 10000, 10001, 999999, 1000000, 1000001}
        \cup {k * AreaStep + 7 : k \in 0..MaxAreaSample}

\* (n / den).toFixed(2)
ToFixed2(n, den) ==
    LET h == (n * 100 + den \div 2) \div den
        cents == h % 100
    IN ToString(h \div 100) \o "." \o
       (IF cents < 10 THEN "0" \o ToString(cents) ELSE ToString(cents))

\* The thresholds compared with <= .
formatAreaInclusive(sqMeters) ==
    IF sqMeters <= 10000 THEN [number |-> ToString(sqMeters), unit |-> "m2"]
    ELSE IF sqMeters <= 1000000 THEN [number |-> ToFixed2(sqMeters, 10000), unit |-> "ha"]
    ELSE [number |-> ToFixed2(sqMeters, 1000000), unit |-> "km2"]

formatArea(sqMeters) ==
    IF sqMeters < 10000 THEN [number |-> ToString(sqMeters), unit |-> "m2"]
    ELSE IF sqMeters < 1000000 THEN [number |-> ToFixed2(sqMeters, 10000), unit |-> "ha"]
    ELSE [number |-> ToFixed2(sqMeters, 1000000), unit |-> "km2"]

\* if (!area) return '' comes first.
formatAreaValue(area) ==
    IF area = 0 THEN [number |-> "", unit |-> ""] ELSE formatArea(area)

FormatInit == Start(Blank("Format"))

FormatArea(n) ==
    /\ lastEvent' = [op |-> "formatArea", known |-> TRUE, threw |-> FALSE, arg |-> n,
                     result |-> formatArea(n), popup |-> formatAreaValue(n)]
    /\ UNCHANGED selectedFeature
    /\ UNCHANGED <<impl, features, activeView, activeTool, wmsVisible, aoiVisible,
                   wmsOpacity, mapRef, tileLayerRef, drawnItemsRef, handlers,
                   drawHandlerRef, closureLen, storage, now, searchQuery,
                   debouncedQuery, searchResults, showSearchResults, timer, requests>>

FormatNext == \E n \in AreaInputs : FormatArea(n)

SpecFormat == FormatInit /\ [][FormatNext]_vars

(***************************************************************************)
(* Properties                                                              *)
(***************************************************************************)
\* The layers of the feature group drawnItemsRef refers to.
LiveLayers == IF drawnItemsRef = None THEN <<>> ELSE drawnItemsRef[1].layers

\* The events that set the feature list, each followed by the restore effect.
ListEvents == {"created", "remove", "clear", "rename"}

EnabledHandlers == {i \in DOMAIN handlers : handlers[i].enabled}

\* Layer i is the layer of feature i, and no two layers are of one feature id.
Mirrors(layers, fs) ==
    /\ Len(layers) = Len(fs)
    /\ \A i \in DOMAIN fs :
          /\ layers[i].builtFrom = fs[i].id
          /\ layers[i].type = fs[i].type
          /\ layers[i].geometry = fs[i].coordinates
          /\ impl = "MC" => layers[i].featureId = Some(fs[i].id)
    /\ \A i, j \in DOMAIN layers : i # j => layers[i].builtFrom # layers[j].builtFrom

\* C1: after every feature-list change (draw completion, removal, clear all,
\* rename) and the rebuild it triggers, the live group on the live map holds
\* exactly one layer per listed feature, in list order, none for a feature that
\* is not listed, and no two layers bound to one feature id.
C1_LayersMirrorList ==
    lastEvent.op \in ListEvents =>
        /\ mapRef
        /\ drawnItemsRef # None
        /\ Mirrors(LiveLayers, features)

\* A removal has left one of two features, and its layer is the only live one.
C1_Witness ==
    /\ lastEvent.op = "remove"
    /\ Len(features) = 1
    /\ Len(LiveLayers) = 1
    /\ now = 2

\* C2: once a rebuild has run, running the restore effect again on the same
\* list leaves the same number of live layers, layer by layer of the same
\* feature id (and with the same featureId property) as after the first run.
C2_RebuildIdempotent ==
    lastEvent.op \in ListEvents =>
        LET again == RestoreEffect(State).drawnItemsRef[1].layers
        IN /\ Len(again) = Len(LiveLayers)
           /\ \A i \in DOMAIN again :
                 /\ again[i].builtFrom = LiveLayers[i].builtFrom
                 /\ again[i].featureId = LiveLayers[i].featureId
                 /\ again[i].builtFrom = features[i].id

\* A rename that kept the name has rebuilt two bound layers from an unchanged list.
C2_Witness ==
    /\ lastEvent.op = "rename"
    /\ Len(features) = 2
    /\ Len(LiveLayers) = 2
    /\ \A i \in DOMAIN features : features[i].name \notin UserNames
    /\ \A i \in DOMAIN LiveLayers : LiveLayers[i].featureId = Some(features[i].id)
    /\ RestoreEffect(State).drawnItemsRef = drawnItemsRef

\* C3: a draw-completed event happens in an active drawing mode, appends
\* exactly one feature, leaves the drawing mode idle, and leaves no enabled
\* handler a further shape could be completed with.
C3_SingleShot ==
    [][lastEvent'.op = "created" =>
          /\ activeTool \in Tools
          /\ Len(features') = Len(features) + 1
          /\ SubSeq(features', 1, Len(features)) = features
          /\ activeTool' = NULL
          /\ EnabledHandlers' = {}]_vars

\* A shape has just been completed with the drawing mode back to idle.
C3_Witness ==
    /\ lastEvent.op = "created"
    /\ Len(features) = 2
    /\ activeTool = NULL
    /\ EnabledHandlers = {}

\* C4: at most one draw handler is enabled, and while a tool is active it is
\* the one handler of that tool, the one drawHandlerRef refers to; the tool
\* effect run for a tool T on a live map leaves the previous handler disabled
\* and exactly one handler enabled, a handler of T.
C4_OneHandler ==
    /\ Cardinality(EnabledHandlers) <= 1
    /\ activeTool # NULL =>
          /\ EnabledHandlers = {drawHandlerRef}
          /\ handlers[drawHandlerRef].type = activeTool
    /\ \A T \in Tools :
          mapRef =>
             LET e == ToolEffect([State EXCEPT !.activeTool = T])
             IN /\ {i \in DOMAIN e.handlers : e.handlers[i].enabled} = {e.drawHandlerRef}
                /\ e.handlers[e.drawHandlerRef].type = T
                /\ \A i \in DOMAIN handlers : ~e.handlers[i].enabled

\* A tool was activated after an earlier one had been used and disabled.
C4_Witness ==
    /\ lastEvent.op = "toolClick"
    /\ activeTool = "circle"
    /\ Len(features) = 1
    /\ features[1].type = "polygon"
    /\ Cardinality(EnabledHandlers) = 1

\* C5: whenever the drawing mode is idle no draw handler is enabled.
C5_IdleMeansDisabled == activeTool = NULL => EnabledHandlers = {}

\* Cancel has ended an active drawing mode.
C5_Witness ==
    /\ lastEvent.op = "cancel"
    /\ activeTool = NULL
    /\ EnabledHandlers = {}
    /\ handlers = <<>>

\* C6: a click on tool B while another tool A is active ends with B active:
\* activeTool is B and the one enabled handler is B's.
C6_SwitchPreempts ==
    [][\A B \in Tools :
          (ToolClick(B) /\ activeTool \in Tools \ {B}) =>
              /\ activeTool' = B
              /\ \E i \in DOMAIN handlers' :
                    /\ EnabledHandlers' = {i}
                    /\ handlers'[i].type = B]_vars

\* C7: addFeature with a feature whose id is already listed fails and leaves
\* the list as it was.
C7_DuplicateAddFails ==
    [][(lastEvent'.op = "addFeature" /\ lastEvent'.known) =>
          (features' = features /\ lastEvent'.threw)]_vars

\* C8: no two features of the list have the same id.
C8_UniqueIds ==
    \A i, j \in DOMAIN features : i # j => features[i].id # features[j].id

\* C9: removeFeature with an id that is not listed changes neither the
\* contents nor the order of the list and raises no error.
C9_RemoveAbsentNoOp ==
    [][(lastEvent'.op = "removeFeature" /\ ~lastEvent'.known) =>
          (features' = features /\ ~lastEvent'.threw)]_vars

\* removeFeature was called with an absent id on a list of two.
C9_Witness ==
    /\ lastEvent.op = "removeFeature"
    /\ ~lastEvent.known
    /\ Len(features) = 2

\* C10: updateFeature with an id that is not listed fails, and the caller
\* sees the failure.
C10_RenameAbsentFails ==
    [][(lastEvent'.op = "updateFeature" /\ ~lastEvent'.known) => lastEvent'.threw]_vars

\* The names a rename can save: a typed one, or a name already in the list.
SavedNames == UserNames \cup {features[i].name : i \in DOMAIN features}

\* C11: a rename of feature id to name leaves the list as long as it was and
\* in the same order, changes the name of the feature with that id and nothing
\* else of it, and changes no other feature.
C11_RenameFrame ==
    [][\A id \in FeatureIds(features) : \A name \in SavedNames :
          RenameSave(id, name) =>
              /\ Len(features') = Len(features)
              /\ \A i \in DOMAIN features :
                    features'[i] = IF features[i].id = id
                                   THEN [features[i] EXCEPT !.name = name]
                                   ELSE features[i]]_vars

\* The first of two features has been renamed, the second has its default name.
C11_Witness ==
    /\ lastEvent.op = "rename"
    /\ Len(features) = 2
    /\ features[1].name \in UserNames
    /\ features[2].name = DefaultName(1)

\* Every field of a feature but its name.
Frozen(f) ==
    [id |-> f.id, type |-> f.type, coordinates |-> f.coordinates, area |-> f.area,
     color |-> f.color, createdAt |-> f.createdAt]

\* C12: across every step (draw completion, removal of another feature,
\* rename, page load from what was persisted) a feature that stays in the list
\* keeps its id, kind, geometry, area, colour and createdAt.
C12_FieldsImmutable ==
    [][\A i \in DOMAIN features : \A j \in DOMAIN features' :
          features[i].id = features'[j].id => Frozen(features[i]) = Frozen(features'[j])]_vars

\* A page load has read back two features, one of them a marker without area.
C12_Witness ==
    /\ lastEvent.op = "load"
    /\ ~lastEvent.threw
    /\ Len(features) = 2
    /\ features[1].type = "marker"
    /\ features[1].area = None
    /\ features[2].area # None

\* C13: a page load never fails: it ends with the application mounted, and
\* with an empty list when the key is missing or holds no JSON array.
C13_StartupNeverFails ==
    [][\A saved \in {storage} \cup ForeignValues :
          PageLoad(saved) =>
              /\ ~lastEvent'.threw
              /\ mapRef'
              /\ (saved = None \/ saved[1].json # "array") => features' = <<>>]_vars

\* C14: while the application is mounted, and so after every change of the
\* list, the persisted value is the serialization of the whole list, and
\* loading it gives the list back, an absent area staying absent.
C14_PersistedIsCurrent ==
    Mounted =>
        /\ storage = Some(Stringify(features))
        /\ LoadFeatures(storage) = [threw |-> FALSE, features |-> features]
        /\ \A i \in DOMAIN features :
              features[i].area = None <=> "area" \notin DOMAIN storage[1].items[i]

\* A marker was drawn after a polygon; both are persisted, the marker without area.
C14_Witness ==
    /\ lastEvent.op = "created"
    /\ Len(features) = 2
    /\ features[2].type = "marker"
    /\ Len(storage[1].items) = 2
    /\ "area" \notin DOMAIN storage[1].items[2]
    /\ "area" \in DOMAIN storage[1].items[1]

\* C15: a page load from what the application persisted gives back the view
\* state (base layer visibility, feature group visibility, opacity) it had.
C15_ViewStatePersisted ==
    [][(Mounted /\ PageLoad(storage)) =>
          /\ wmsVisible' = wmsVisible
          /\ aoiVisible' = aoiVisible
          /\ wmsOpacity' = wmsOpacity]_vars

\* C16: Clear All on a list that is not empty leaves the list empty and, after
\* the rebuild, no layer in the live feature group.
C16_ClearAllEmpties ==
    [][(ClearAllClick /\ features # <<>>) =>
          /\ features' = <<>>
          /\ mapRef'
          /\ drawnItemsRef' # None
          /\ drawnItemsRef'[1].layers = <<>>]_vars

\* Clear All has run after features were drawn; list and group are empty.
C16_Witness ==
    /\ lastEvent.op = "clear"
    /\ now = MaxClock
    /\ features = <<>>
    /\ LiveLayers = <<>>
    /\ storage = Some(Stringify(<<>>))

\* The document of the last step, an export that downloaded one.
Exported == lastEvent.result.download[1]

\* C17: Export GeoJSON on an empty list downloads no document, reports
\* 'No features to export' and changes nothing of the state.
C17_ExportEmptyReports ==
    [][(ExportClick /\ features = <<>>) =>
          /\ lastEvent'.result.download = None
          /\ lastEvent'.result.toast = "No features to export"
          /\ UNCHANGED <<impl, features, selectedFeature, activeView, activeTool,
                         wmsVisible, aoiVisible, wmsOpacity, mapRef, tileLayerRef,
                         drawnItemsRef, handlers, drawHandlerRef, closureLen,
                         storage, now>>]_vars

\* Export was clicked on an empty list after features had been drawn and removed.
C17_Witness ==
    /\ lastEvent.op = "export"
    /\ features = <<>>
    /\ now >= 1
    /\ lastEvent.result.download = None

\* C18: an export of a list that is not empty downloads one Feature per
\* feature, in list order, with the feature's id, name, kind and createdAt,
\* its area when it has one, and geometry type Point for a marker and Polygon
\* for every other kind.
C18_ExportOnePerFeature ==
    (lastEvent.op = "export" /\ features # <<>>) =>
        /\ lastEvent.result.download # None
        /\ Exported.type = "FeatureCollection"
        /\ Len(Exported.features) = Len(features)
        /\ \A i \in DOMAIN features :
              LET f == features[i]
                  d == Exported.features[i]
              IN /\ d.type = "Feature"
                 /\ d.properties.id = f.id
                 /\ d.properties.name = f.name
                 /\ d.properties.type = f.type
                 /\ d.properties.createdAt = f.createdAt
                 /\ "area" \in DOMAIN d.properties <=> f.area # None
                 /\ f.area # None => d.properties.area = f.area
                 /\ DOMAIN d.properties \subseteq {"id", "name", "type", "area", "createdAt"}
                 /\ d.geometry.type = IF f.type = "marker" THEN "Point" ELSE "Polygon"

\* A marker and a circle have been exported, in that order.
C18_Witness ==
    /\ lastEvent.op = "export"
    /\ Len(features) = 2
    /\ features[1].type = "marker"
    /\ features[2].type = "circle"
    /\ Len(Exported.features) = 2
    /\ Exported.features[1].geometry.type = "Point"

\* C19: for a polygon or rectangle of n stored [lat, lng] vertices the
\* exported ring has n + 1 positions, position k is [lng, lat] of vertex k,
\* the last position is the first, and swapping the first n back gives the
\* stored vertices.
C19_RingRoundTrip ==
    lastEvent.op = "export" =>
        \A i \in DOMAIN features :
            features[i].type \in {"polygon", "rectangle"} =>
                LET v == features[i].coordinates.ring
                    n == Len(v)
                    rings == Exported.features[i].geometry.coordinates
                    ring == rings[1]
                IN /\ Len(rings) = 1
                   /\ Len(ring) = n + 1
                   /\ \A k \in 1..n : ring[k] = <<v[k][2], v[k][1]>>
                   /\ ring[n + 1] = ring[1]
                   /\ [k \in 1..n |-> <<ring[k][2], ring[k][1]>>] = v

\* A rectangle of four vertices has been exported as a ring of five positions.
C19_Witness ==
    /\ lastEvent.op = "export"
    /\ Len(features) >= 1
    /\ features[1].type = "rectangle"
    /\ Len(features[1].coordinates.ring) = 4
    /\ Len(Exported.features[1].geometry.coordinates[1]) = 5
    /\ Exported.features[1].geometry.coordinates[1][2] = <<0, 30>>

\* C20: a listed feature has an area exactly when it is a polygon, a rectangle
\* or a circle, and an area that is present is >= 0.
C20_AreaIffShape ==
    \A i \in DOMAIN features :
        /\ features[i].area # None <=> features[i].type \in {"polygon", "rectangle", "circle"}
        /\ features[i].area # None => features[i].area[1] >= 0

\* C21: a feature made by a draw completion is named "AOI n", n being the
\* length of the list at that moment plus one, and no later step other than a
\* rename changes the name of a feature that stays in the list.
C21_DefaultNameCounts ==
    [][/\ lastEvent'.op = "created" =>
             features'[Len(features')].name = DefaultName(Len(features) + 1)
       /\ lastEvent'.op # "rename" =>
             \A i \in DOMAIN features : \A j \in DOMAIN features' :
                 features[i].id = features'[j].id => features[i].name = features'[j].name]_vars

\* C22: formatArea gives m² with no decimals below 10,000, hectares from
\* 10,000 up to but excluding 1,000,000 and km² from 1,000,000 up, and so does
\* formatAreaValue for every area but 0; 9999 is in m², 10000 and 999999 are
\* in ha, 1000000 is in km².
C22_FormatAreaUnits ==
    /\ formatArea(9999).unit = "m2"
    /\ formatArea(10000).unit = "ha"
    /\ formatArea(999999).unit = "ha"
    /\ formatArea(1000000).unit = "km2"
    /\ lastEvent.op = "formatArea" =>
          LET n == lastEvent.arg
              r == lastEvent.result
          IN /\ r.unit = IF n < 10000 THEN "m2"
                         ELSE IF n < 1000000 THEN "ha" ELSE "km2"
             /\ n < 10000 => r.number = ToString(n)
             /\ n # 0 => lastEvent.popup = r

\* 999999 m² has been formatted, as 100.00 ha.
C22_Witness ==
    /\ lastEvent.op = "formatArea"
    /\ lastEvent.arg = 999999
    /\ lastEvent.result = [number |-> "100.00", unit |-> "ha"]

\* C23: a draw completion whose layer is a polygon of fewer than three vertices
\* does not fail: the area computation gives 0 and the feature is appended to
\* the list all the same.
C23_ShortPolygonAppended ==
    [][\A layer \in DrawnLayers("polygon") : \A i \in DOMAIN handlers : \A r \in Rand :
           (Len(layer.latlngs) < 3 /\ DrawCreated(i, layer, r)) =>
               /\ calculatePolygonArea(layer.latlngs) = 0
               /\ ~lastEvent'.threw
               /\ Len(features') = Len(features) + 1
               /\ SubSeq(features', 1, Len(features)) = features
               /\ features'[Len(features')].type = "polygon"
               /\ features'[Len(features')].coordinates = [ring |-> layer.latlngs]]_vars

\* A polygon of two vertices has just been completed and is the last of the list.
C23_Witness ==
    /\ lastEvent.op = "created"
    /\ features # <<>>
    /\ features[Len(features)].type = "polygon"
    /\ Len(features[Len(features)].coordinates.ring) = 2

\* C24: the ring exported for a circle has 33 positions in [lng, lat] order,
\* one for each of the angles i/32 of a turn from the centre, and its last
\* position equals its first.
C24_CircleRingClosed ==
    (lastEvent.op = "export" /\ lastEvent.result.download # None) =>
        \A j \in DOMAIN features :
            features[j].type = "circle" =>
                LET ring == Exported.features[j].geometry.coordinates[1]
                    c == features[j].coordinates
                IN /\ Len(ring) = 33
                   /\ \A i \in 1..33 :
                         /\ ring[i][1].base = c.center[2]
                         /\ ring[i][2].base = c.center[1]
                   /\ \A i \in 2..32 :
                         /\ ring[i][1].trig = "sin " \o ToString(i - 1)
                         /\ ring[i][2].trig = "cos " \o ToString(i - 1)
                   /\ ring[33] = ring[1]

\* C25: in App, after a draw completion the new list is written to storage
\* before the rebuild that renders it runs, and no rebuild at all has seen a
\* list that storage did not hold yet.
C25_SavedBeforeRebuild ==
    [][impl = "App" =>
          /\ drawnItemsRef' # None => drawnItemsRef'[1].afterSave
          /\ lastEvent'.op = "created" =>
                /\ drawnItemsRef' # None
                /\ Mirrors(drawnItemsRef'[1].layers, features')
                /\ features' # features
                /\ storage' = Some(Stringify(features'))]_vars

\* App has just rebuilt the layers for a list a draw completion made longer.
C25_Witness ==
    /\ impl = "App"
    /\ lastEvent.op = "created"
    /\ drawnItemsRef # None
    /\ drawnItemsRef[1].afterSave
    /\ Len(drawnItemsRef[1].layers) = 2

\* C26: a change of the opacity sets the opacity of the base layer to
\* value / 100 and nothing else: the layers are not rebuilt, and the feature
\* list, the live layers, both visibility flags and the drawing mode stay as
\* they are.
C26_OpacityFrame ==
    [][\A value \in OpacityValues :
           SetWmsOpacity(value) =>
               /\ wmsOpacity' = value
               /\ tileLayerRef # None
               /\ tileLayerRef' = Some([tileLayerRef[1] EXCEPT !.opacity = value])
               /\ UNCHANGED <<features, drawnItemsRef, wmsVisible, aoiVisible,
                              activeTool, handlers, drawHandlerRef, mapRef,
                              activeView, storage, selectedFeature>>]_vars

\* The slider has been moved to 40 with a feature drawn, a tool active and the
\* base layer hidden.
C26_Witness ==
    /\ lastEvent.op = "viewState"
    /\ wmsOpacity = 40
    /\ tileLayerRef # None
    /\ tileLayerRef[1].opacity = 40
    /\ ~tileLayerRef[1].onMap
    /\ features # <<>>
    /\ activeTool # NULL

\* C27: the search results shown belong to the most recent query: once no
\* timeout and no fetch is pending, results that are shown are those of the
\* query in the box, no answer to an older query having replaced them.
C27_ResultsOfLatestQuery ==
    (timer = None /\ requests = <<>> /\ searchResults # <<>>) =>
        searchResults = Places(searchQuery)

\* C28: while a map is live, the base layer is on it exactly when wmsVisible
\* is set and the feature group exactly when aoiVisible is set, also after the
\* map has been torn down and created again.
C28_SurfaceMatchesFlags ==
    (Mounted /\ mapRef) =>
        /\ tileLayerRef # None
        /\ tileLayerRef[1].onMap = wmsVisible
        /\ drawnItemsRef # None
        /\ drawnItemsRef[1].onMap = aoiVisible

\* C29: whenever a tool is the active tool and a map is live, a draw handler
\* of that kind is enabled on that map, and no handler is enabled on a map that
\* has been removed.
C29_ActiveToolHasLiveHandler ==
    (Mounted /\ activeTool # NULL /\ mapRef) =>
        /\ \E i \in DOMAIN handlers :
              /\ handlers[i].enabled
              /\ handlers[i].type = activeTool
              /\ handlers[i].mapLive
        /\ \A i \in DOMAIN handlers : handlers[i].enabled => handlers[i].mapLive

\* C30: in the store, selectedFeature is null or equal to a feature that is in
\* the list, also after removeFeature, updateFeature or clearFeatures.
C30_SelectionInList ==
    (impl = "Store" /\ selectedFeature # None) =>
        \E i \in DOMAIN features : features[i] = selectedFeature[1]

====
